---- MODULE Spec2Model ----
(***************************************************************************)
(* The browser-side player of simple_visualizer/public/script.js:          *)
(* class DataFetcherAndPlayer (HSVtoRGB, initData, getNextThing) and the   *)
(* callbacks the page registers (req.onload, the button's click listeners, *)
(* the addDotAndContinue timer, the render tick).                          *)
(*                                                                         *)
(* JavaScript runs every callback to completion on one thread, so each     *)
(* callback is one action.  Text is a sequence of one-character strings.   *)
(* Times are integer milliseconds.                                         *)
(***************************************************************************)
EXTENDS Integers, Sequences, FiniteSets, TLC

(***************************************************************************)
(* Bounds of the model.                                                    *)
(***************************************************************************)
\* the response text holds at most MaxLines lines
MaxLines == 2
\* the page's time (performance.now()) is followed for MaxSteps steps
MaxSteps == 6
\* a line of the parser's texts holds at most MaxTokens tokens
MaxTokens == 9
\* clicks are followed while they have started at most MaxClicks clocks per line
MaxClicks == 2
\* at most MaxDots runs of addDotAndContinue are followed
MaxDots == 2

\* the length of one step of the page's time, in milliseconds
StepMs == 100

(***************************************************************************)
(* Strings: String.prototype.trim, String.prototype.split, parseInt.       *)
(***************************************************************************)
\* the white space String.prototype.trim and parseInt strip
WhiteSpace == {" ", "\n", "\t", "\r"}

Digits == <<"0", "1", "2", "3", "4", "5", "6", "7", "8", "9">>

IsDigit(c) == \E d \in 1..10 : Digits[d] = c

DigitValue(c) == (CHOOSE d \in 1..10 : Digits[d] = c) - 1

RECURSIVE TrimStart(_)
TrimStart(s) ==
    IF s # <<>> /\ Head(s) \in WhiteSpace THEN TrimStart(Tail(s)) ELSE s

RECURSIVE TrimEnd(_)
TrimEnd(s) ==
    IF s # <<>> /\ s[Len(s)] \in WhiteSpace
    THEN TrimEnd(SubSeq(s, 1, Len(s) - 1))
    ELSE s

\* String.prototype.trim
trim(s) == TrimEnd(TrimStart(s))

\* String.prototype.split(sep) for a one-character separator: the pieces
\* between the separators, so that "" splits into the one piece "".
RECURSIVE SplitFrom(_, _, _)
SplitFrom(s, sep, piece) ==
    IF s = <<>> THEN <<piece>>
    ELSE IF Head(s) = sep THEN <<piece>> \o SplitFrom(Tail(s), sep, <<>>)
    ELSE SplitFrom(Tail(s), sep, Append(piece, Head(s)))

split(s, sep) == SplitFrom(s, sep, <<>>)

\* NaN, and the test for it.  A parsed number n is the one-element <<n>>.
NaN == <<>>

isNaN(x) == x = NaN

\* the longest run of decimal digits at the start of s, as a number; acc
\* holds <<the value so far>> once a digit was read
RECURSIVE ReadDigits(_, _)
ReadDigits(s, acc) ==
    IF s # <<>> /\ IsDigit(Head(s))
    THEN ReadDigits(Tail(s),
                    <<(IF acc = NaN THEN 0 ELSE acc[1] * 10) + DigitValue(Head(s))>>)
    ELSE acc

\* parseInt(x) with no radix: leading white space is skipped, one sign is
\* read, then the longest prefix of decimal digits; NaN when there is none.
\* What follows the digits is ignored.
parseInt(x) ==
    LET s    == TrimStart(x)
        neg  == s # <<>> /\ Head(s) = "-"
        body == IF s # <<>> /\ Head(s) \in {"-", "+"} THEN Tail(s) ELSE s
        n    == ReadDigits(body, NaN)
    IN  IF isNaN(n) THEN NaN ELSE IF neg THEN <<0 - n[1]>> ELSE n

(***************************************************************************)
(* Numbers.  A JavaScript number that need not be an integer is the exact  *)
(* fraction <<n, d>> in lowest terms with d > 0 (rounding of the floating  *)
(* point is not modelled); undefined is <<>>.                              *)
(***************************************************************************)
undefined == <<>>

Abs(n) == IF n < 0 THEN 0 - n ELSE n

RECURSIVE Gcd(_, _)
Gcd(a, b) == IF b = 0 THEN a ELSE Gcd(b, a % b)

Frac(n, d) ==
    LET g == Gcd(Abs(n), Abs(d))
        sg == IF d < 0 THEN 0 - 1 ELSE 1
    IN  <<(sg * n) \div g, (sg * d) \div g>>

Num(n) == <<n, 1>>

FMul(x, y) == Frac(x[1] * y[1], x[2] * y[2])

FSub(x, y) == Frac(x[1] * y[2] - y[1] * x[2], x[2] * y[2])

\* Math.floor
floor(x) == x[1] \div x[2]

\* the switch of HSVtoRGB taken on i instead of i % 6
JsRemNone(a, b) == a

\* the remainder operator %: the result has the sign of the dividend
JsRem(a, b) == IF a >= 0 THEN a % b ELSE 0 - ((0 - a) % b)

(***************************************************************************)
(* DataFetcherAndPlayer.HSVtoRGB, called with three arguments.             *)
(***************************************************************************)
\* the switch on i % 6: no case matches a negative remainder, and r, g, b
\* stay undefined
HSVSector(k, v, p, q, t) ==
    CASE k = 0 -> [r |-> v, g |-> t, b |-> p]
      [] k = 1 -> [r |-> q, g |-> v, b |-> p]
      [] k = 2 -> [r |-> p, g |-> v, b |-> t]
      [] k = 3 -> [r |-> p, g |-> q, b |-> v]
      [] k = 4 -> [r |-> t, g |-> p, b |-> v]
      [] k = 5 -> [r |-> v, g |-> p, b |-> q]
      [] OTHER -> [r |-> undefined, g |-> undefined, b |-> undefined]

HSVtoRGB(h, s, v) ==
    LET i == floor(FMul(h, Num(6)))
        f == FSub(FMul(h, Num(6)), Num(i))
        p == FMul(v, FSub(Num(1), s))
        q == FMul(v, FSub(Num(1), FMul(f, s)))
        t == FMul(v, FSub(Num(1), FMul(FSub(Num(1), f), s)))
    IN  HSVSector(JsRem(i, 6), v, p, q, t)

(***************************************************************************)
(* req.onload: the parse of the response text.                             *)
(***************************************************************************)
\* The loop over the values of one line (script.js 117-145).  st is the
\* loop's state: the counter i, line_info and the pending light_index, h, s.
\* A NaN value throws: thrown is set and the rest of the line is not read.
RECURSIVE ReadValues(_, _)
ReadValues(values, st) ==
    IF values = <<>> THEN st
    ELSE
      LET value == Head(values) IN
      IF isNaN(value) THEN [st EXCEPT !.thrown = TRUE]
      ELSE
        LET n == value[1]
            next ==
              IF st.i = 0 THEN [st EXCEPT !.line_info[1] = n]
              ELSE IF st.i % 4 = 1 THEN [st EXCEPT !.light_index = n]
              ELSE IF st.i % 4 = 2 THEN [st EXCEPT !.h = n]
              ELSE IF st.i % 4 = 3 THEN [st EXCEPT !.s = n]
              ELSE
                LET rgb == HSVtoRGB(Frac(st.h, 255), Frac(st.s, 255), Frac(n, 255))
                IN  [st EXCEPT !.line_info[2] =
                        Append(@, <<st.light_index, rgb.r, rgb.g, rgb.b>>)]
        IN  ReadValues(Tail(values), [next EXCEPT !.i = @ + 1])

\* line.split(",").map((x) => parseInt(x))
LineSplit(line) ==
    LET pieces == split(line, ",")
    IN  [k \in 1..Len(pieces) |-> parseInt(pieces[k])]

\* ReadLine throwing on a line whose last tuple is incomplete
ReadLineStrict(line) ==
    LET values == LineSplit(line)
        got == ReadValues(values,
                   [i |-> 0, line_info |-> <<NaN, <<>>>>, light_index |-> 0,
                    h |-> 0, s |-> 0, thrown |-> FALSE])
    IN  IF (Len(values) - 1) % 4 # 0 THEN [got EXCEPT !.thrown = TRUE] ELSE got

\* One line: <<line_info>> = <<timestamp, updates>>, or thrown.
ReadLine(line) ==
    ReadValues(LineSplit(line),
               [i |-> 0, line_info |-> <<NaN, <<>>>>, light_index |-> 0,
                h |-> 0, s |-> 0, thrown |-> FALSE])

\* The loop over the lines (script.js 115-154), from the state acc of the
\* player and the button: each line read in full is pushed onto all_data and
\* registers one more click listener before the next line is read; a throw
\* leaves what was pushed and registered so far.
\* ReadLines registering the click listener of a line before the line is read
RECURSIVE ReadLinesListenFirst(_, _)
ReadLinesListenFirst(per_line, acc) ==
    IF per_line = <<>> THEN acc
    ELSE
      LET got == ReadLine(Head(per_line)) IN
      IF got.thrown THEN [acc EXCEPT !.thrown = TRUE, !.listeners = @ + 1]
      ELSE ReadLinesListenFirst(Tail(per_line),
                     [acc EXCEPT !.all_data = Append(@, got.line_info),
                                 !.listeners = @ + 1])

RECURSIVE ReadLines(_, _)
ReadLines(per_line, acc) ==
    IF per_line = <<>> THEN acc
    ELSE
      LET got == ReadLine(Head(per_line)) IN
      IF got.thrown THEN [acc EXCEPT !.thrown = TRUE]
      ELSE ReadLines(Tail(per_line),
                     [acc EXCEPT !.all_data = Append(@, got.line_info),
                                 !.listeners = @ + 1])

\* onload with the loop stopping one line short
onloadOneShort(responseText) ==
    LET server_response_string == trim(responseText)
        per_line == split(server_response_string, "\n")
    IN  ReadLines(SubSeq(per_line, 1, Len(per_line) - 1),
                  [all_data |-> <<>>, listeners |-> 0, thrown |-> FALSE])

\* the body of req.onload on the response text
onload(responseText) ==
    LET server_response_string == trim(responseText)
        per_line == split(server_response_string, "\n")
    IN  ReadLines(per_line, [all_data |-> <<>>, listeners |-> 0, thrown |-> FALSE])

(***************************************************************************)
(* DataFetcherAndPlayer.getNextThing.  The player is the record this, with *)
(* the fields of the class; indices count from 0 as in the code, so frame  *)
(* k of all_data is all_data[k + 1], its timestamp all_data[k + 1][1] and  *)
(* its updates all_data[k + 1][2].                                         *)
(***************************************************************************)
\* the literal of line 190: frames staler than this are passed over
Tolerance == 100

\* THREE.Clock.getElapsedTime() * 1000 at the page time now, for a clock
\* started at startTime
getElapsedTime(clock, now) == now - clock.startTime

\* IsStale with the comparison turned round
IsStaleFlipped(timestamp, currentRunTime) == timestamp > currentRunTime - Tolerance

\* IsStale with half the tolerance
IsStaleTight(timestamp, currentRunTime) == timestamp < currentRunTime - Tolerance \div 2

\* the test of the while loop, line 190
IsStale(timestamp, currentRunTime) == timestamp < currentRunTime - Tolerance

\* NotYetDue holding the frames that are due
NotYetDueFlipped(timestamp, currentRunTime) == currentRunTime >= timestamp

\* NotYetDue with < for <=
NotYetDueStrict(timestamp, currentRunTime) == currentRunTime < timestamp

\* the test of line 197
NotYetDue(timestamp, currentRunTime) == currentRunTime <= timestamp

\* NextIndex stepping over two frames
NextIndexByTwo(data_index) == data_index + 2

\* line 191: data_index += 1
NextIndex(data_index) == data_index + 1

\* RanOff with > for >=
RanOffStrict(data_index, length) == data_index > length

\* the test of line 192
RanOff(data_index, length) == data_index >= length

\* The while loop, lines 190-195: the data_index it ends with and how it is
\* left.  Its test reads all_data[data_index][0]; at data_index =
\* all_data.length the element is undefined and the read throws a TypeError
\* ("throws").  Otherwise the loop is left by the return of line 193
\* ("returns") or by its test failing ("falls").
RECURSIVE CatchUp(_, _, _)
CatchUp(all_data, data_index, currentRunTime) ==
    IF data_index >= Len(all_data)
    THEN [data_index |-> data_index, left |-> "throws"]
    ELSE IF IsStale(all_data[data_index + 1][1], currentRunTime)
    THEN IF RanOff(NextIndex(data_index), Len(all_data))
         THEN [data_index |-> NextIndex(data_index), left |-> "returns"]
         ELSE CatchUp(all_data, NextIndex(data_index), currentRunTime)
    ELSE [data_index |-> data_index, left |-> "falls"]

\* ExhaustedResult returning the cached updates
ExhaustedResultCached(this) == this.current_data

\* what lines 187 and 193 return
ExhaustedResult(this) == <<>>

\* EmitFrame without line 200, the store into current_data
EmitFrameNoStore(this, data_index) ==
    [this EXCEPT !.data_index = data_index + 1]

\* EmitFrame without line 202, the advance of data_index
EmitFrameNoAdvance(this, data_index) ==
    [this EXCEPT !.current_data = this.all_data[data_index + 1][2],
                 !.data_index = data_index]

\* lines 200-203: the frame at data_index becomes current_data
EmitFrame(this, data_index) ==
    [this EXCEPT !.current_data = this.all_data[data_index + 1][2],
                 !.data_index = data_index + 1]

\* lines 184-204, with the clock running; the result holds the player
\* after the call, the value returned (none, written <<>>, when the call
\* throws), which return was taken and the index the while loop ended at
Play(this, currentRunTime) ==
    IF this.data_index >= Len(this.all_data)
    THEN [this |-> this, ret |-> ExhaustedResult(this), kind |-> "exhausted",
          idx |-> this.data_index]
    ELSE
      LET went == CatchUp(this.all_data, this.data_index, currentRunTime)
          idx == went.data_index
          at  == [this EXCEPT !.data_index = idx]
      IN  IF went.left = "throws"
          THEN [this |-> at, ret |-> <<>>, kind |-> "throws", idx |-> idx]
          ELSE IF went.left = "returns"
          THEN [this |-> at, ret |-> ExhaustedResult(at), kind |-> "ranoff",
                idx |-> idx]
          ELSE IF NotYetDue(this.all_data[idx + 1][1], currentRunTime)
          THEN [this |-> at, ret |-> at.current_data, kind |-> "hold", idx |-> idx]
          ELSE LET out == EmitFrame(at, idx)
               IN  [this |-> out, ret |-> out.current_data, kind |-> "emit",
                    idx |-> idx]

\* getNextThing without the test of line 179, playing by its argument
\* current_time while no clock is set
getNextThingNoIdleTest(this, current_time, now) ==
    IF this.running_clock = undefined
    THEN Play(this, current_time)
    ELSE Play(this, getElapsedTime(this.running_clock[1], now))

\* getNextThing(current_time) at the page time now; current_time is not read
getNextThing(this, current_time, now) ==
    IF this.running_clock = undefined
    THEN [this |-> this, ret |-> <<>>, kind |-> "idle", idx |-> this.data_index]
    ELSE Play(this, getElapsedTime(this.running_clock[1], now))

(***************************************************************************)
(* The response texts followed: up to MaxLines lines drawn from Lines.     *)
(***************************************************************************)
\* the decimal digits of n >= 0
RECURSIVE Decimal(_)
Decimal(n) ==
    IF n < 10 THEN <<Digits[n + 1]>>
    ELSE Append(Decimal(n \div 10), Digits[(n % 10) + 1])

RECURSIVE Join(_, _)
Join(pieces, sep) ==
    IF pieces = <<>> THEN <<>>
    ELSE IF Len(pieces) = 1 THEN pieces[1]
    ELSE pieces[1] \o <<sep>> \o Join(Tail(pieces), sep)

Lines ==
    { Join(<<Decimal(0), Decimal(1), Decimal(0), Decimal(255), Decimal(255)>>, ","),
      Join(<<Decimal(50), Decimal(2), Decimal(85), Decimal(255), Decimal(255)>>, ","),
      Join(<<Decimal(500), Decimal(2), Decimal(85), Decimal(255), Decimal(255),
             Decimal(3), Decimal(0), Decimal(0)>>, ","),
      Decimal(100),
      Join(<<Decimal(50), Decimal(1), <<"a">>, Decimal(255), Decimal(255)>>, ",") }

\* the sequences of at most n lines
LineSeqs(n) == UNION { [1..k -> Lines] : k \in 0..n }

\* the lines joined by newlines, and the same followed by a final newline and
\* preceded by a blank (for the texts of fewer than MaxLines lines)
Texts ==
    { Join(ls, "\n") : ls \in LineSeqs(MaxLines) }
      \cup { <<" ">> \o Join(ls, "\n") \o <<"\n">> : ls \in LineSeqs(MaxLines - 1) }

\* The texts the parser is followed on by itself: one line of 1 to MaxTokens
\* tokens drawn from TokenValues, and two such lines of at most five tokens.
TokenValues == {85, 255}

TokenLines(n) ==
    { Join([k \in 1..Len(ts) |-> Decimal(ts[k])], ",") :
        ts \in UNION { [1..m -> TokenValues] : m \in 1..n } }

ParseTexts ==
    TokenLines(MaxTokens)
      \cup { a \o <<"\n">> \o b : a \in TokenLines(5), b \in TokenLines(5) }

\* The texts the colour conversion is followed on: the same light at hue
\* 255/255 and at hue 0/255, for every saturation and value of 0..MaxChannel.
MaxChannel == 255

ColourLine(h, s, v) ==
    Join(<<Decimal(0), Decimal(1), Decimal(h), Decimal(s), Decimal(v)>>, ",")

ColourTexts ==
    { ColourLine(MaxChannel, s, v) \o <<"\n">> \o ColourLine(0, s, v) :
        s \in 0..MaxChannel, v \in 0..MaxChannel }

(***************************************************************************)
(* The state of the page.                                                  *)
(***************************************************************************)
VARIABLES
    responseText,   \* the text the server answers /get-data with
    request,        \* "sent", then "loaded" (onload returned) or "failed" (it threw)
    all_data,       \* DataFetcherAndPlayer.all_data
    running_clock,  \* .running_clock: undefined, or <<the THREE.Clock>>
    data_index,     \* .data_index
    current_data,   \* .current_data
    listeners,      \* the click listeners registered on the button and not yet run
    clocks,         \* the THREE.Clock objects constructed so far
    innerHTML,      \* the button's text and the dots appended to it
    timer,          \* TRUE while a setTimeout of addDotAndContinue is pending
    now,            \* the page's time in ms
    clicked,        \* the latest click on the button found the clock "idle" or
                    \* "running"; "never" before the first click
    ret,            \* what the latest getNextThing returned
    called,         \* the latest getNextThing: its return, elapsed time and data_index
    emitted,        \* the indices emitted so far, in order
    skipped,        \* the indices the catch-up loop passed over so far, in order
    wasExhausted,   \* data_index = all_data.length held in some state so far
    wasExhaustedLoaded  \* ... in some state after req.onload ran

vars == <<responseText, request, all_data, running_clock, data_index, current_data,
          listeners, clocks, innerHTML, timer, now, clicked, ret, called, emitted,
          skipped, wasExhausted, wasExhaustedLoaded>>

player == <<all_data, running_clock, data_index, current_data>>

history == <<ret, called, emitted, skipped>>

\* the object `this` of the methods
This ==
    [all_data |-> all_data, running_clock |-> running_clock,
     data_index |-> data_index, current_data |-> current_data]

\* main() has run: the player is constructed, initData has sent the request
\* and run addDotAndContinue once (one dot, all_data empty, the timer armed),
\* and the first animation frame is requested.
Init ==
    /\ responseText \in Texts
    /\ request = "sent"
    /\ all_data = <<>>
    /\ running_clock = undefined
    /\ data_index = 0
    /\ current_data = <<>>
    /\ listeners = 0
    /\ clocks = 0
    /\ innerHTML = [text |-> "Loading", dots |-> 1]
    /\ timer = TRUE
    /\ now = 0
    /\ clicked = "never"
    /\ ret = <<>>
    /\ called = [kind |-> "none", elapsed |-> 0, from |-> 0]
    /\ emitted = <<>>
    /\ skipped = <<>>
    /\ wasExhausted = TRUE
    /\ wasExhaustedLoaded = FALSE

\* the record of whether the log was seen exhausted, kept by every step
Seen ==
    /\ wasExhausted' = (wasExhausted \/ data_index' = Len(all_data'))
    /\ wasExhaustedLoaded' =
         (wasExhaustedLoaded \/ (request' # "sent" /\ data_index' = Len(all_data')))

\* time passes
Advance ==
    /\ now + StepMs <= MaxSteps * StepMs
    /\ now' = now + StepMs
    /\ UNCHANGED <<responseText, request, player, listeners, clocks, innerHTML,
                   timer, clicked, history>>
    /\ Seen

\* req.onload, lines 112-155: runs once, when the response has arrived
OnLoad ==
    /\ request = "sent"
    /\ \E done \in {onload(responseText)} :
        /\ all_data' = done.all_data
        /\ listeners' = done.listeners
        /\ request' = IF done.thrown THEN "failed" ELSE "loaded"
    /\ UNCHANGED <<responseText, running_clock, data_index, current_data, clocks,
                   innerHTML, timer, now, clicked, history>>
    /\ Seen

\* AfterDispatch for listeners registered without once
AfterDispatchKept(n) == n

\* what is left of n listeners registered with once after a click ran them
AfterDispatch(n) == 0

\* A click on the button, lines 148-153: every registered listener runs, each
\* constructing and starting a new clock, the last of which stays in
\* running_clock; with no listener registered nothing runs.
Click ==
    /\ clocks + listeners <= MaxClicks * MaxLines
    /\ clicked' = IF running_clock = undefined THEN "idle" ELSE "running"
    /\ IF listeners > 0
       THEN /\ clocks' = clocks + listeners
            /\ running_clock' = <<[id |-> clocks + listeners, startTime |-> now]>>
       ELSE UNCHANGED <<clocks, running_clock>>
    /\ listeners' = AfterDispatch(listeners)
    /\ UNCHANGED <<responseText, request, all_data, data_index, current_data,
                   innerHTML, timer, now, history>>
    /\ Seen

\* Poll with the timer set again in both branches
PollRearming ==
    /\ timer
    /\ (Len(all_data) > 0 \/ innerHTML.dots < MaxDots)
    /\ IF Len(all_data) > 0
       THEN innerHTML' = [text |-> "Done! Click to begin", dots |-> 0]
       ELSE innerHTML' = [innerHTML EXCEPT !.dots = @ + 1]
    /\ timer' = TRUE
    /\ UNCHANGED <<responseText, request, player, listeners, clocks, now, clicked,
                   history>>
    /\ Seen

\* addDotAndContinue run by its timer, lines 159-172; the runs that find the
\* log empty are followed up to MaxDots dots
Poll ==
    /\ timer
    /\ (Len(all_data) > 0 \/ innerHTML.dots < MaxDots)
    /\ IF Len(all_data) > 0
       THEN /\ innerHTML' = [text |-> "Done! Click to begin", dots |-> 0]
            /\ timer' = FALSE
       ELSE /\ innerHTML' = [innerHTML EXCEPT !.dots = @ + 1]
            /\ timer' = TRUE
    /\ UNCHANGED <<responseText, request, player, listeners, clocks, now, clicked,
                   history>>
    /\ Seen

\* The render tick, lines 246-257: getNextThing and what it leaves behind.
\* The updates returned go to the cubes of the scene, which is not part of
\* the state kept here; the tick re-arms itself before it calls getNextThing,
\* so it is always enabled.
Tick ==
    LET got == getNextThing(This, now, now) IN
    /\ data_index' = got.this.data_index
    /\ current_data' = got.this.current_data
    /\ ret' = got.ret
    /\ called' = [kind |-> got.kind,
                  elapsed |-> IF running_clock = undefined THEN 0
                              ELSE getElapsedTime(running_clock[1], now),
                  from |-> data_index]
    /\ emitted' = IF got.kind = "emit" THEN Append(emitted, got.idx) ELSE emitted
    /\ skipped' =
         skipped \o [k \in 1..(got.idx - data_index) |-> data_index + k - 1]
    /\ UNCHANGED <<responseText, request, all_data, running_clock, listeners,
                   clocks, innerHTML, timer, now, clicked>>
    /\ Seen

Next == Advance \/ OnLoad \/ Click \/ Poll \/ Tick

Spec == Init /\ [][Next]_vars

\* The page with its render loop kept going: tick asks for the next animation
\* frame (line 247) before anything else, every time it runs.
FairSpec == Spec /\ WF_vars(Tick)

\* The page on a browser that keeps the render loop timely: time passes in
\* half steps, and while the clock runs it does not pass further than
\* Cadence beyond the elapsed time the latest tick read (0 when no tick has
\* run since the clock started), so the next tick reads at most that much
\* more.  Cadence is the largest delay the while loop of line 190 lets pass.
Cadence == Tolerance

AdvanceTimely ==
    /\ now + StepMs \div 2 <= MaxSteps * StepMs
    /\ running_clock # undefined =>
          getElapsedTime(running_clock[1], now + StepMs \div 2) - called.elapsed <= Cadence
    /\ now' = now + StepMs \div 2
    /\ UNCHANGED <<responseText, request, player, listeners, clocks, innerHTML,
                   timer, clicked, history>>
    /\ Seen

TimelyNext == AdvanceTimely \/ OnLoad \/ Click \/ Poll \/ Tick

SpecTimely == Init /\ [][TimelyNext]_vars

\* The parser by itself: the page as main() leaves it, with a response text
\* of ParseTexts, and the one run of req.onload.
ParseInit ==
    /\ responseText \in ParseTexts
    /\ request = "sent"
    /\ all_data = <<>>
    /\ running_clock = undefined
    /\ data_index = 0
    /\ current_data = <<>>
    /\ listeners = 0
    /\ clocks = 0
    /\ innerHTML = [text |-> "Loading", dots |-> 1]
    /\ timer = TRUE
    /\ now = 0
    /\ clicked = "never"
    /\ ret = <<>>
    /\ called = [kind |-> "none", elapsed |-> 0, from |-> 0]
    /\ emitted = <<>>
    /\ skipped = <<>>
    /\ wasExhausted = TRUE
    /\ wasExhaustedLoaded = FALSE

ParseNext == OnLoad

\* The colour conversion by itself: the page as main() leaves it, with a
\* response text of ColourTexts, and the one run of req.onload.
ColourInit ==
    /\ responseText \in ColourTexts
    /\ request = "sent"
    /\ all_data = <<>>
    /\ running_clock = undefined
    /\ data_index = 0
    /\ current_data = <<>>
    /\ listeners = 0
    /\ clocks = 0
    /\ innerHTML = [text |-> "Loading", dots |-> 1]
    /\ timer = TRUE
    /\ now = 0
    /\ clicked = "never"
    /\ ret = <<>>
    /\ called = [kind |-> "none", elapsed |-> 0, from |-> 0]
    /\ emitted = <<>>
    /\ skipped = <<>>
    /\ wasExhausted = TRUE
    /\ wasExhaustedLoaded = FALSE

ColourNext == OnLoad

SpecColour == ColourInit /\ [][ColourNext]_vars

SpecParse == ParseInit /\ [][ParseNext]_vars

(***************************************************************************)
(* Properties.                                                             *)
(***************************************************************************)
\* the timestamp and the updates of frame k (from 0)
Timestamp(k) == all_data[k + 1][1]

Updates(k) == all_data[k + 1][2]

Running == running_clock # undefined

\* no element occurs twice in q
NoRepeat(q) == \A a, b \in 1..Len(q) : q[a] = q[b] => a = b

Elements(q) == { q[a] : a \in 1..Len(q) }

\* the timestamps of the log never decrease
SortedLog == \A a, b \in 1..Len(all_data) : a <= b => all_data[a][1] <= all_data[b][1]

\* The frame a tick at elapsed time e comes to after passing over the stale
\* frames: the first index from data_index on whose timestamp is not below
\* e - 100, or the length of the log when there is none.
Pending(e) ==
    CHOOSE c \in data_index..Len(all_data) :
        /\ \A j \in data_index..(c - 1) : Timestamp(j) < e - 100
        /\ c < Len(all_data) => ~(Timestamp(c) < e - 100)

\* C1  Forward-only cursor: no step decreases data_index, and no index of the
\* log is emitted or passed over more than once: the indices emitted and
\* passed over so far are distinct and are exactly those below data_index.
C1_ForwardOnlyCursor ==
    [][ /\ data_index' >= data_index
        /\ NoRepeat(emitted' \o skipped')
        /\ Elements(emitted' \o skipped') = 0..(data_index' - 1) ]_vars

\* C1 witness: after start, ingestion and ticks one index was passed over and
\* the next one emitted.
C1_Witness ==
    /\ Running
    /\ skipped = <<0>>
    /\ emitted = <<1>>
    /\ data_index = 2

\* C2  Emission rule: a tick emits at most one frame; when it emits frame k
\* (current_data becomes the updates of frame k, data_index becomes k + 1 and
\* the updates are returned), elapsed - 100 <= timestamp of k < elapsed; and a
\* tick that changes current_data or advances past an index it did not pass
\* over is an emitting tick.
C2_EmissionRule ==
    [][ Tick =>
          /\ Len(emitted') <= Len(emitted) + 1
          /\ (current_data' # current_data => Len(emitted') = Len(emitted) + 1)
          /\ Len(emitted') = Len(emitted) + 1 =>
                LET k == emitted'[Len(emitted')]
                    e == called'.elapsed
                IN  /\ e - 100 <= Timestamp(k)
                    /\ Timestamp(k) < e
                    /\ current_data' = Updates(k)
                    /\ ret' = Updates(k)
                    /\ data_index' = k + 1 ]_vars

\* C2 witness: two frames due at the same elapsed time were emitted by two
\* ticks, one each.
C2_Witness ==
    /\ called.kind = "emit"
    /\ emitted = <<0, 1>>
    /\ skipped = <<>>
    /\ Timestamp(0) < called.elapsed
    /\ Timestamp(1) < called.elapsed
    /\ called.elapsed - 100 <= Timestamp(0)
    /\ called.from = 1

\* C3  Catch-up skip: with a log of non-decreasing timestamps, after a tick of
\* the running player at elapsed time e data_index is past every frame whose
\* timestamp is below e - 100, and no index passed over is ever emitted.
C3_CatchUpSkip ==
    [][ (Tick /\ Running /\ SortedLog) =>
          /\ \A k \in 0..(Len(all_data) - 1) :
                Timestamp(k) < called'.elapsed - 100 => k < data_index'
          /\ Elements(skipped') \cap Elements(emitted') = {} ]_vars

\* C3 witness: frames at 0 and 500, first tick at 600: frame 0 is passed over,
\* frame 1 emitted, data_index is 2.
C3_Witness ==
    /\ Len(all_data) = 2
    /\ Timestamp(0) = 0
    /\ Timestamp(1) = 500
    /\ called = [kind |-> "emit", elapsed |-> 600, from |-> 0]
    /\ skipped = <<0>>
    /\ emitted = <<1>>
    /\ data_index = 2
    /\ ret = Updates(1)

\* C4  Hold-until-due: a tick of the running player that, after passing over
\* the stale frames, comes to a frame c of the log with elapsed <= timestamp of
\* c returns current_data as it was before the tick, leaves current_data
\* unchanged, emits nothing and leaves data_index at c.
C4_HoldUntilDue ==
    [][ (Tick /\ Running /\ data_index < Len(all_data)) =>
          LET e == called'.elapsed
              c == Pending(e)
          IN  (c < Len(all_data) /\ e <= Timestamp(c)) =>
                /\ ret' = current_data
                /\ current_data' = current_data
                /\ emitted' = emitted
                /\ data_index' = c ]_vars

\* C4 witness: a tick held a frame that was not yet due while an earlier frame
\* stays cached and returned.
C4_Witness ==
    /\ called.kind = "hold"
    /\ emitted = <<0>>
    /\ data_index = 1
    /\ called.elapsed <= Timestamp(1)
    /\ ret = Updates(0)
    /\ ret # <<>>

\* C5  Idle no-op: a tick while running_clock is undefined returns the empty
\* sequence and changes neither data_index nor current_data, at any time and
\* with the log loaded or not.
C5_IdleNoOp ==
    [][ (Tick /\ ~Running) =>
          /\ ret' = <<>>
          /\ data_index' = data_index
          /\ current_data' = current_data ]_vars

\* C5 witness: a tick before the start, with the log loaded and a frame due
\* by the page's time.
C5_Witness ==
    /\ ~Running
    /\ called.kind = "idle"
    /\ request = "loaded"
    /\ Len(all_data) = 2
    /\ Timestamp(0) < now
    /\ data_index = 0

\* C6 as stated  Exhaustion is absorbing: once data_index = all_data.length
\* has held, every later tick returns the empty sequence and leaves data_index
\* and current_data unchanged.
C6_ExhaustionAbsorbing ==
    [][ (Tick /\ wasExhausted) =>
          /\ ret' = <<>>
          /\ data_index' = data_index
          /\ current_data' = current_data ]_vars

\* C6 as amended  Once data_index = all_data.length has held in a state after
\* req.onload ran, every later tick returns the empty sequence (not the cached
\* current_data) and leaves data_index and current_data unchanged; and the
\* tick whose catch-up loop runs off the end of the log returns the empty
\* sequence and leaves current_data unchanged.
C6_ExhaustionAbsorbingLoaded ==
    [][ Tick =>
          /\ wasExhaustedLoaded =>
                /\ ret' = <<>>
                /\ data_index' = data_index
                /\ current_data' = current_data
          /\ (Running /\ data_index < Len(all_data)
                /\ Pending(called'.elapsed) = Len(all_data)) =>
                /\ ret' = <<>>
                /\ data_index' = Len(all_data)
                /\ current_data' = current_data ]_vars

\* C6 witness: a tick of the exhausted player returned the empty sequence
\* while the updates of the last emitted frame stay cached.
C6_Witness ==
    /\ wasExhaustedLoaded
    /\ called.kind = "exhausted"
    /\ called.from = Len(all_data)
    /\ emitted # <<>>
    /\ current_data # <<>>
    /\ ret = <<>>

\* C7  Parser fail-fast: after req.onload threw on a token that is no integer,
\* all_data is still empty.
C7_NoPartialLog == request = "failed" => all_data = <<>>

\* the lines of the response text as req.onload splits them
PerLine == split(trim(responseText), "\n")

\* C8  Atomic publication: the log is empty at first, and the only step that
\* changes it (or ends the request) is the one run of req.onload, from the
\* empty log; when that run does not throw it leaves one frame for each line
\* of the text, in line order.  So every state, and every tick and poll,
\* sees the empty log or, once loaded, the complete one.
C8_AtomicPublication ==
    [][ (all_data' # all_data \/ request' # request) =>
          /\ request = "sent"
          /\ all_data = <<>>
          /\ request' = "loaded" =>
                /\ Len(all_data') = Len(PerLine)
                /\ \A k \in 1..Len(PerLine) :
                      all_data'[k] = ReadLine(PerLine[k]).line_info ]_vars

\* C8 witness: a tick and a poll have run on the complete log of two lines.
C8_Witness ==
    /\ request = "loaded"
    /\ Len(PerLine) = 2
    /\ Len(all_data) = 2
    /\ called.kind = "emit"
    /\ innerHTML.text = "Done! Click to begin"

\* C9  One-shot start: once running_clock is set no step changes it (a click
\* neither replaces nor restarts the clock, and the player never returns to
\* idle), and no click changes data_index or current_data.
C9_OneShotStart ==
    [][ /\ Running => running_clock' = running_clock
        /\ Click => (data_index' = data_index /\ current_data' = current_data) ]_vars

\* C9 witness: a click arrived while the clock was running, after a frame was
\* emitted.
C9_Witness ==
    /\ clicked = "running"
    /\ Running
    /\ running_clock[1].startTime < now
    /\ emitted # <<>>

\* some line of the text holds a token that is not empty and that parseInt
\* reads as NaN
MalformedToken ==
    \E k \in 1..Len(PerLine) :
        LET pieces == split(PerLine[k], ",")
        IN  \E j \in 1..Len(pieces) : pieces[j] # <<>> /\ isNaN(parseInt(pieces[j]))

\* C10  Ingestion failure halts loading: once req.onload has thrown on a
\* malformed token, a run of addDotAndContinue neither re-arms its timer nor
\* shows "Done! Click to begin".
C10_FailureHaltsLoading ==
    [][ (Poll /\ request = "failed" /\ MalformedToken) =>
          /\ ~timer'
          /\ innerHTML'.text # "Done! Click to begin" ]_vars

\* the button shows the ready notification
Ready == innerHTML.text = "Done! Click to begin"

\* C11  One-shot ready: the ready notification is shown by a run of
\* addDotAndContinue that finds the log non-empty and arms no timer; once it
\* is shown no timer is pending, none is armed again and no further run of
\* addDotAndContinue happens, so it fires at most once.
C11_OneShotReady ==
    [][ /\ Ready => (~timer /\ ~timer' /\ ~Poll /\ innerHTML' = innerHTML)
        /\ (~Ready /\ Ready') => (Poll /\ Len(all_data) > 0 /\ ~timer') ]_vars

\* C11 witness: the notification was shown and the page went on (time
\* passed, a frame was emitted) with no timer pending.
C11_Witness ==
    /\ Ready
    /\ ~timer
    /\ emitted # <<>>
    /\ now > 0

\* C12  Empty input: when the response text is empty or holds only white
\* space, req.onload raises no error and leaves the log empty.
C12_EmptyInput ==
    (request # "sent" /\ trim(responseText) = <<>>) =>
        (request = "loaded" /\ all_data = <<>>)

\* the frame req.onload is to build from the values of one line: the first
\* value as timestamp, then one update for each complete group of four values
ExpectedFrame(values) ==
    <<values[1][1],
      [j \in 1..((Len(values) - 1) \div 4) |->
         LET rgb == HSVtoRGB(Frac(values[4 * j - 1][1], 255),
                             Frac(values[4 * j][1], 255),
                             Frac(values[4 * j + 1][1], 255))
         IN  <<values[4 * j - 2][1], rgb.r, rgb.g, rgb.b>>]>>

\* C13  Trailing-tuple drop: when every token of the text is an integer,
\* req.onload raises no error and leaves one frame per line, in line order;
\* the frame of a line of n tokens has the first token as timestamp and
\* exactly (n - 1) div 4 updates, the complete 4-tuples in order, the 1 to 3
\* tokens left over being dropped.
C13_TrailingTupleDrop ==
    (request # "sent" /\ \A k \in 1..Len(PerLine) :
                            \A v \in Elements(LineSplit(PerLine[k])) : ~isNaN(v)) =>
        /\ request = "loaded"
        /\ Len(all_data) = Len(PerLine)
        /\ \A k \in 1..Len(PerLine) :
              /\ all_data[k] = ExpectedFrame(LineSplit(PerLine[k]))
              /\ Len(all_data[k][2]) = (Len(split(PerLine[k], ",")) - 1) \div 4

\* C13 witness: a line of eight tokens gave a frame of one update, the three
\* tokens left over dropped.
C13_Witness ==
    /\ request = "loaded"
    /\ Len(PerLine) = 1
    /\ Len(split(PerLine[1], ",")) = 8
    /\ Len(all_data) = 1
    /\ Len(all_data[1][2]) = 1

\* the colour of an update <<light_index, r, g, b>>
Colour(update) == <<update[2], update[3], update[4]>>

\* C14  Hue wrap-around: for every saturation and value s, v of
\* {0..255}/255, HSVtoRGB(1, s, v) is HSVtoRGB(0, s, v), componentwise; at
\* s = v = 1 both are (1, 0, 0), and HSVtoRGB(0, 0, 0) is (0, 0, 0).
C14_HueWrapAround ==
    request # "sent" =>
        \A per_line \in {PerLine} :
        \A one \in {LineSplit(per_line[1])}, zero \in {LineSplit(per_line[2])} :
            (/\ one[3] = <<MaxChannel>> /\ zero[3] = <<0>>
             /\ one[4] = zero[4] /\ one[5] = zero[5]) =>
              /\ request = "loaded"
              /\ Len(Updates(0)) = 1 /\ Len(Updates(1)) = 1
              /\ Colour(Updates(0)[1]) = Colour(Updates(1)[1])
              /\ (one[4] = <<MaxChannel>> /\ one[5] = <<MaxChannel>>) =>
                    Colour(Updates(1)[1]) = <<Num(1), Num(0), Num(0)>>
              /\ (one[4] = <<0>> /\ one[5] = <<0>>) =>
                    Colour(Updates(1)[1]) = <<Num(0), Num(0), Num(0)>>

\* C14 witness: the two hues were converted at full saturation and value,
\* and both gave pure red.
C14_Witness ==
    /\ request = "loaded"
    /\ responseText = ColourLine(MaxChannel, MaxChannel, MaxChannel) \o <<"\n">>
                         \o ColourLine(0, MaxChannel, MaxChannel)
    /\ Colour(Updates(0)[1]) = <<Num(1), Num(0), Num(0)>>
    /\ Colour(Updates(1)[1]) = <<Num(1), Num(0), Num(0)>>

\* C15  Bounded tick: for any log, sorted or not, and any elapsed time, a
\* tick runs getNextThing to one of its returns (it does not throw out of
\* the loop), and its while loop moves data_index forward by at most
\* all_data.length minus the data_index the tick started with.
C15_BoundedTick ==
    [][ Tick =>
          /\ called'.kind \in {"idle", "exhausted", "ranoff", "hold", "emit"}
          /\ Len(skipped') - Len(skipped) >= 0
          /\ Len(skipped') - Len(skipped) <= Len(all_data) - data_index
          /\ called'.kind \in {"idle", "exhausted"} => skipped' = skipped ]_vars

\* C15 witness: on a log that is not sorted, a tick passed over every frame
\* from the first on and returned by line 193.
C15_Witness ==
    /\ ~SortedLog
    /\ called.kind = "ranoff"
    /\ called.from = 0
    /\ skipped = [k \in 1..Len(all_data) |-> k - 1]

\* the clock runs and its elapsed time is past the timestamp of every frame
\* of the log (on a sorted log: past the timestamp of the last frame)
PastEveryFrame ==
    /\ Running
    /\ \A k \in 0..(Len(all_data) - 1) :
          Timestamp(k) < getElapsedTime(running_clock[1], now)

\* every frame of the log was emitted once or passed over, never both
AllPlayed ==
    /\ NoRepeat(emitted) /\ NoRepeat(skipped)
    /\ Elements(emitted) \cup Elements(skipped) = 0..(Len(all_data) - 1)
    /\ Elements(emitted) \cap Elements(skipped) = {}

\* C16  Eventual exhaustion: with the ticks going on, once the clock runs
\* and the elapsed time has grown past the timestamps of the log, eventually
\* data_index = all_data.length, and from then on for ever, every frame
\* having been emitted once or passed over.
C16_EventualExhaustion ==
    PastEveryFrame ~> [](data_index = Len(all_data) /\ AllPlayed)

\* C16 witness: the clock ran past both frames of a log and the log is
\* exhausted, one frame emitted and one passed over.
C16_Witness ==
    /\ PastEveryFrame
    /\ Len(all_data) = 2
    /\ data_index = Len(all_data)
    /\ Len(emitted) = 1 /\ Len(skipped) = 1
    /\ AllPlayed

\* consecutive timestamps of the log differ by at least T, from a first
\* timestamp that is not negative
SpacedLog(T) ==
    /\ Len(all_data) > 0 => Timestamp(0) >= 0
    /\ \A k \in 0..(Len(all_data) - 2) : Timestamp(k + 1) - Timestamp(k) >= T

\* C17  No drops under a timely tick cadence: with T <= 100, on a log whose
\* consecutive timestamps differ by at least T, when the first tick after the
\* start reads an elapsed time of at most T and every later tick at most T
\* more than the tick before it, no tick passes over a frame: the while loop
\* never advances data_index.
C17_NoDropsWhenTimely ==
    (Cadence <= Tolerance /\ SpacedLog(Cadence)) => skipped = <<>>

\* C17 witness: both frames of a spaced log were emitted, the second by a
\* tick that read an elapsed time Cadence past its timestamp.
C17_Witness ==
    /\ SpacedLog(Cadence)
    /\ Len(all_data) = 2
    /\ emitted = <<0, 1>>
    /\ skipped = <<>>
    /\ called.kind = "emit"
    /\ called.elapsed - Timestamp(1) = Cadence

\* the updates of the frame emitted last, <<>> when none was emitted
LastEmitted == IF emitted = <<>> THEN <<>> ELSE Updates(emitted[Len(emitted)])

\* C18  Cache consistency: current_data is empty while no frame has been
\* emitted, and otherwise the update list of the frame emitted last, whose
\* index is below data_index; a tick that emits nothing (it passes frames
\* over, holds, finds the log exhausted or finds no clock) leaves it as it is.
C18_CacheConsistency ==
    /\ [](/\ current_data = LastEmitted
          /\ emitted # <<>> => emitted[Len(emitted)] < data_index)
    /\ [][(Tick /\ called'.kind # "emit") => current_data' = current_data]_vars

\* C18 witness: a frame with updates was emitted, then a later tick passed
\* over the rest of the log and ran off its end, and current_data still holds
\* the updates of the emitted frame.
C18_Witness ==
    /\ emitted # <<>>
    /\ current_data # <<>>
    /\ current_data = LastEmitted
    /\ called.kind = "ranoff"
    /\ skipped # <<>>
    /\ skipped[Len(skipped)] > emitted[Len(emitted)]

\* C19  Running implies loaded: however the clicks, the run of req.onload
\* and the polls interleave, the clock is set only when the log holds a
\* frame; a click that comes while the log is empty starts nothing, and the
\* player is left as it was, without a clock.
C19_RunningImpliesLoaded ==
    /\ [](Running => Len(all_data) > 0)
    /\ [][(Click /\ all_data = <<>>) =>
            (running_clock' = undefined /\ UNCHANGED <<player, clocks>>)]_vars

\* C19 witness: with the request still out and the log empty, a click found
\* no clock and left none; time has passed and a poll has run.
C19_Witness ==
    /\ request = "sent"
    /\ clicked = "idle"
    /\ ~Running
    /\ all_data = <<>>
    /\ now > 0
    /\ innerHTML.dots > 1

\* C20  Cursor bounds: for any log and any elapsed time, data_index stays
\* between 0 and all_data.length, and no call of getNextThing reads
\* all_data[data_index] at data_index = all_data.length (the read that
\* would throw).
C20_CursorBounds ==
    /\ 0 <= data_index
    /\ data_index <= Len(all_data)
    /\ called.kind # "throws"
    /\ called.from <= Len(all_data)

\* C20 witness: the while loop passed over the last frame of the log, and
\* the call returned with data_index = all_data.length; the next tick found
\* the log exhausted at line 186.
C20_Witness ==
    /\ Len(all_data) > 0
    /\ data_index = Len(all_data)
    /\ called.kind = "exhausted"
    /\ called.from = Len(all_data)
    /\ skipped # <<>>
    /\ skipped[Len(skipped)] = Len(all_data) - 1

====
